---- MODULE Spec2Model ----
(***************************************************************************)
(* microsynth: src/src/main.rs.                                            *)
(*                                                                         *)
(* Three execution contexts share the statics STEPS, NOTE, OCTAVE,         *)
(* PITCH_BEND and USE_MINOR_SCALE: the GPIOTE interrupt handler (buttons), *)
(* the RTC0 interrupt handler (timer tick) and the foreground loop of main *)
(* (accelerometer).  Every access is inside cortex_m::interrupt::free.     *)
(*                                                                         *)
(* Numbers.  The f32 values of the program are held in fixed point with    *)
(* BEND_SCALE units per 1.0.  Every f32 the program computes before powf   *)
(* is a multiple of 1/8192 of magnitude below 2^11, so it is exact in f32  *)
(* and exact here.  The frequency 440.0 * powf(a, e) is represented by its *)
(* exponent e (semitones above the 440 Hz reference, fixed point): powf    *)
(* and the cast to u32 are functions of e, and e is what the code computes *)
(* from the shared state.                                                  *)
(***************************************************************************)
EXTENDS Integers, Sequences, FiniteSets, TLC

VARIABLES
    GPIO,             \* static GPIO holds Some(gpiote)
    RTC,              \* static RTC holds Some(rtc)
    SPEAKER,          \* static SPEAKER holds Some(pwm)
    PITCH_BEND,       \* static PITCH_BEND (f32, fixed point)
    STEPS,            \* static STEPS (i32)
    NOTE,             \* static NOTE (i32)
    OCTAVE,           \* static OCTAVE (i32)
    USE_MINOR_SCALE,  \* static USE_MINOR_SCALE (bool)
    ch0_event,        \* GPIOTE channel 0 event register (button A)
    ch1_event,        \* GPIOTE channel 1 event register (button B)
    tick_event,       \* RTC0 TICK event register
    rtc_running,      \* RTC0 counter started, tick event enabled
    gpiote_unmasked,  \* NVIC enable bit of the GPIOTE interrupt
    rtc0_unmasked,    \* NVIC enable bit of the RTC0 interrupt
    gpiote_pending,   \* NVIC pending bit of the GPIOTE interrupt
    rtc0_pending,     \* NVIC pending bit of the RTC0 interrupt
    primask,          \* PRIMASK: TRUE when interrupts are disabled
    saved,            \* PRIMASK values saved by the open interrupt::free calls
    speaker_on,       \* the PWM has been enabled
    speaker_period,   \* frequency programmed into the PWM (exponent, fixed point)
    speaker_duty,     \* divisor d of the programmed duty max_duty / d (0: none yet)
    main_pc,          \* position of main
    active,           \* interrupt handler running: "none", "GPIOTE", "RTC0"
    isr_pc,           \* position of the running handler
    buttonapressed,   \* local of GPIOTE
    buttonbpressed,   \* local of GPIOTE
    data_x,           \* local of main: data.x of the sample being applied
    freq,             \* local of RTC0: result of note_to_freq (exponent, fixed point)
    scale_step,       \* local of steps_to_note: the matched scale step
    cooling,          \* history: ticks left of the debounce window of the spec
    accepted,         \* history: the last two samples that passed the threshold
    prev              \* history: the evaluation before the last retune

prog == <<GPIO, RTC, SPEAKER, PITCH_BEND, STEPS, NOTE, OCTAVE, USE_MINOR_SCALE,
          ch0_event, ch1_event, tick_event, rtc_running, gpiote_unmasked,
          rtc0_unmasked, gpiote_pending, rtc0_pending, primask, saved,
          speaker_on, speaker_period, speaker_duty, main_pc, active, isr_pc,
          buttonapressed, buttonbpressed, data_x, freq, scale_step>>

vars == <<GPIO, RTC, SPEAKER, PITCH_BEND, STEPS, NOTE, OCTAVE, USE_MINOR_SCALE,
          ch0_event, ch1_event, tick_event, rtc_running, gpiote_unmasked,
          rtc0_unmasked, gpiote_pending, rtc0_pending, primask, saved,
          speaker_on, speaker_period, speaker_duty, main_pc, active, isr_pc,
          buttonapressed, buttonbpressed, data_x, freq, scale_step,
          cooling, accepted, prev>>

----------------------------------------------------------------------------
(* Program constants *)

BEND_SCALE == 8192
NOISE_THRESHOLD == 100
SCALE_LEN == 7
OCTAVE_SEMITONES == 12
BEND_RANGE == 2
DUTY_DIV == 2

(* Configuration the specification states and the source does not hold *)
STEP_LIMIT == 63
DEBOUNCE_WINDOW == 8

(* Bounds of the model *)
StepCap == 8          \* presses are offered while |STEPS| < StepCap (Spec)
EdgeCap == 64         \* the same, for the specification of the edge handler
SampleSpread == 1     \* samples reach NOISE_THRESHOLD + SampleSpread
LiveCap == 2          \* presses are offered while |STEPS| < LiveCap (FairSpec)

PANIC == 99           \* stands for panic!("Invalid scale step")

----------------------------------------------------------------------------
(* Arithmetic of the program *)

\* n as f32
Fix(n) == n * BEND_SCALE

Abs(n) == IF n < 0 THEN -n ELSE n

\* i32 division: truncates toward zero
i32_div(x, y) == IF x >= 0 THEN x \div y ELSE -((-x) \div y)

\* i32 remainder: has the sign of the dividend
i32_rem(x, y) == x - y * i32_div(x, y)

\* the data.x values the accelerometer delivers in the model
Samples == {sgn * (NOISE_THRESHOLD + d) : sgn \in {-1, 1}, d \in 0..SampleSpread}

----------------------------------------------------------------------------
(* steps_to_note and note_to_freq *)

\* variant: the offset that keeps the dividend non-negative is not taken out again
octave_of_offset(steps) == i32_div(steps + STEP_LIMIT, SCALE_LEN)

\* let octave = steps / 7
octave_of(steps) == i32_div(steps, SCALE_LEN)

\* variant: the remainder keeps its sign
step_of_signed(steps) == i32_rem(steps, SCALE_LEN)

\* let mut steps = steps % 7; if steps < 0 { steps *= -1 }
step_of(steps) ==
    LET r == i32_rem(steps, SCALE_LEN)
    IN  IF r < 0 THEN r * (-1) ELSE r

\* variant: the minor arm holds the major table
minor_note_as_major(s) ==
    CASE s = 0 -> 0
      [] s = 1 -> 2
      [] s = 2 -> 4
      [] s = 3 -> 5
      [] s = 4 -> 7
      [] s = 5 -> 9
      [] s = 6 -> 11
      [] s = 7 -> 12
      [] OTHER -> PANIC

minor_note(s) ==
    CASE s = 0 -> 0
      [] s = 1 -> 2
      [] s = 2 -> 3
      [] s = 3 -> 5
      [] s = 4 -> 7
      [] s = 5 -> 8
      [] s = 6 -> 10
      [] s = 7 -> 12
      [] OTHER -> PANIC

\* variant: the 4th and the 5th are exchanged
major_note_swapped(s) ==
    CASE s = 0 -> 0
      [] s = 1 -> 2
      [] s = 2 -> 4
      [] s = 3 -> 7
      [] s = 4 -> 5
      [] s = 5 -> 9
      [] s = 6 -> 11
      [] s = 7 -> 12
      [] OTHER -> PANIC

major_note(s) ==
    CASE s = 0 -> 0
      [] s = 1 -> 2
      [] s = 2 -> 4
      [] s = 3 -> 5
      [] s = 4 -> 7
      [] s = 5 -> 9
      [] s = 6 -> 11
      [] s = 7 -> 12
      [] OTHER -> PANIC

note_of(s, is_minor_scale) ==
    IF is_minor_scale THEN minor_note(s) ELSE major_note(s)

\* the exponent of 440.0 * powf(a, note + 12. * octave + semitone_bend)
note_to_freq(note, octave, pitch_bend) ==
    LET semitone_bend == BEND_RANGE * pitch_bend
    IN  Fix(note) + OCTAVE_SEMITONES * Fix(octave) + semitone_bend

\* data.x as f32 / 8192.0
new_freq(x) == Fix(x) \div BEND_SCALE

----------------------------------------------------------------------------
(* cortex_m::interrupt::free: save PRIMASK, disable interrupts, run the    *)
(* closure, enable interrupts again only if they were enabled before.      *)

\* variant: PRIMASK is saved but interrupts are not disabled
free_enter_enabled ==
    /\ saved' = Append(saved, primask)
    /\ primask' = primask

free_enter ==
    /\ saved' = Append(saved, primask)
    /\ primask' = TRUE

free_exit ==
    /\ primask' = saved[Len(saved)]
    /\ saved' = SubSeq(saved, 1, Len(saved) - 1)

\* the interrupt request lines of the two peripherals (level)
gpiote_line == ch0_event \/ ch1_event
rtc0_line == tick_event

----------------------------------------------------------------------------
Init ==
    /\ GPIO = FALSE /\ RTC = FALSE /\ SPEAKER = FALSE
    /\ PITCH_BEND = Fix(0)
    /\ STEPS = 0 /\ NOTE = 0 /\ OCTAVE = 0
    /\ USE_MINOR_SCALE = TRUE
    /\ ch0_event = FALSE /\ ch1_event = FALSE
    /\ tick_event = FALSE /\ rtc_running = FALSE
    /\ gpiote_unmasked = FALSE /\ rtc0_unmasked = FALSE
    /\ gpiote_pending = FALSE /\ rtc0_pending = FALSE
    /\ primask = FALSE /\ saved = <<>>
    /\ speaker_on = FALSE /\ speaker_period = Fix(0) /\ speaker_duty = 0
    /\ main_pc = "init"
    /\ active = "none" /\ isr_pc = "idle"
    /\ buttonapressed = FALSE /\ buttonbpressed = FALSE
    /\ data_x = 0 /\ freq = Fix(0) /\ scale_step = 0
    /\ cooling = 0
    /\ accepted = <<>>
    /\ prev = [valid |-> FALSE, stale |-> FALSE, steps |-> 0, semitone |-> Fix(0),
               octave |-> 0, step |-> 0,
               note |-> 0, back |-> FALSE]

----------------------------------------------------------------------------
(* Hardware.  The NVIC latches a pending bit when a request line rises and *)
(* keeps it until the handler is entered; a line still high when a handler *)
(* returns pends the interrupt again.  GPIOTE and RTC0 keep their reset    *)
(* priority, so neither handler preempts the other.                        *)

\* button A pulls its pin low: channel 0 (hi_to_lo, interrupt enabled) latches
Button_A(cap) ==
    /\ STEPS < cap
    /\ ch0_event' = TRUE
    /\ gpiote_pending' = (gpiote_pending \/ ~gpiote_line)
    /\ UNCHANGED <<GPIO, RTC, SPEAKER, PITCH_BEND, STEPS, NOTE, OCTAVE,
                   USE_MINOR_SCALE, ch1_event, tick_event, rtc_running,
                   gpiote_unmasked, rtc0_unmasked, rtc0_pending, primask,
                   saved, speaker_on, speaker_period, speaker_duty, main_pc,
                   active, isr_pc, buttonapressed, buttonbpressed, data_x,
                   freq, scale_step>>

\* button B: channel 1
Button_B(cap) ==
    /\ STEPS > -cap
    /\ ch1_event' = TRUE
    /\ gpiote_pending' = (gpiote_pending \/ ~gpiote_line)
    /\ UNCHANGED <<GPIO, RTC, SPEAKER, PITCH_BEND, STEPS, NOTE, OCTAVE,
                   USE_MINOR_SCALE, ch0_event, tick_event, rtc_running,
                   gpiote_unmasked, rtc0_unmasked, rtc0_pending, primask,
                   saved, speaker_on, speaker_period, speaker_duty, main_pc,
                   active, isr_pc, buttonapressed, buttonbpressed, data_x,
                   freq, scale_step>>

\* the RTC counter passes a tick
Tick ==
    /\ rtc_running
    /\ ~tick_event
    /\ tick_event' = TRUE
    /\ rtc0_pending' = TRUE
    /\ UNCHANGED <<GPIO, RTC, SPEAKER, PITCH_BEND, STEPS, NOTE, OCTAVE,
                   USE_MINOR_SCALE, ch0_event, ch1_event, rtc_running,
                   gpiote_unmasked, rtc0_unmasked, gpiote_pending, primask,
                   saved, speaker_on, speaker_period, speaker_duty, main_pc,
                   active, isr_pc, buttonapressed, buttonbpressed, data_x,
                   freq, scale_step>>

----------------------------------------------------------------------------
(* main: the critical section that installs the peripherals *)

\* variant: the installing section is entered with interrupts left enabled
Main_init_enter_open ==
    /\ main_pc = "init" /\ active = "none"
    /\ saved' = Append(saved, primask)
    /\ primask' = primask
    /\ main_pc' = "unmask_gpiote"
    /\ UNCHANGED <<GPIO, RTC, SPEAKER, PITCH_BEND, STEPS, NOTE, OCTAVE,
                   USE_MINOR_SCALE, ch0_event, ch1_event, tick_event,
                   rtc_running, gpiote_unmasked, rtc0_unmasked,
                   gpiote_pending, rtc0_pending, speaker_on, speaker_period,
                   speaker_duty, active, isr_pc, buttonapressed,
                   buttonbpressed, data_x, freq, scale_step>>

Main_init_enter ==
    /\ main_pc = "init" /\ active = "none"
    /\ free_enter
    /\ main_pc' = "unmask_gpiote"
    /\ UNCHANGED <<GPIO, RTC, SPEAKER, PITCH_BEND, STEPS, NOTE, OCTAVE,
                   USE_MINOR_SCALE, ch0_event, ch1_event, tick_event,
                   rtc_running, gpiote_unmasked, rtc0_unmasked,
                   gpiote_pending, rtc0_pending, speaker_on, speaker_period,
                   speaker_duty, active, isr_pc, buttonapressed,
                   buttonbpressed, data_x, freq, scale_step>>

\* NVIC::unmask(GPIOTE); NVIC::unpend(GPIOTE)
Main_unmask_gpiote ==
    /\ main_pc = "unmask_gpiote" /\ active = "none"
    /\ gpiote_unmasked' = TRUE
    /\ gpiote_pending' = (gpiote_pending /\ gpiote_line)
    /\ main_pc' = "store_gpio"
    /\ UNCHANGED <<GPIO, RTC, SPEAKER, PITCH_BEND, STEPS, NOTE, OCTAVE,
                   USE_MINOR_SCALE, ch0_event, ch1_event, tick_event,
                   rtc_running, rtc0_unmasked, rtc0_pending, primask, saved,
                   speaker_on, speaker_period, speaker_duty, active, isr_pc,
                   buttonapressed, buttonbpressed, data_x, freq, scale_step>>

Main_store_gpio ==
    /\ main_pc = "store_gpio" /\ active = "none"
    /\ GPIO' = TRUE
    /\ main_pc' = "rtc_setup"
    /\ UNCHANGED <<RTC, SPEAKER, PITCH_BEND, STEPS, NOTE, OCTAVE,
                   USE_MINOR_SCALE, ch0_event, ch1_event, tick_event,
                   rtc_running, gpiote_unmasked, rtc0_unmasked,
                   gpiote_pending, rtc0_pending, primask, saved, speaker_on,
                   speaker_period, speaker_duty, active, isr_pc,
                   buttonapressed, buttonbpressed, data_x, freq, scale_step>>

\* Rtc::new, enable_counter, enable_interrupt(Tick, Some(NVIC)), enable_event
Main_rtc_setup ==
    /\ main_pc = "rtc_setup" /\ active = "none"
    /\ rtc_running' = TRUE
    /\ rtc0_unmasked' = TRUE
    /\ main_pc' = "store_rtc"
    /\ UNCHANGED <<GPIO, RTC, SPEAKER, PITCH_BEND, STEPS, NOTE, OCTAVE,
                   USE_MINOR_SCALE, ch0_event, ch1_event, tick_event,
                   gpiote_unmasked, gpiote_pending, rtc0_pending, primask,
                   saved, speaker_on, speaker_period, speaker_duty, active,
                   isr_pc, buttonapressed, buttonbpressed, data_x, freq,
                   scale_step>>

Main_store_rtc ==
    /\ main_pc = "store_rtc" /\ active = "none"
    /\ RTC' = TRUE
    /\ main_pc' = "speaker_setup"
    /\ UNCHANGED <<GPIO, SPEAKER, PITCH_BEND, STEPS, NOTE, OCTAVE,
                   USE_MINOR_SCALE, ch0_event, ch1_event, tick_event,
                   rtc_running, gpiote_unmasked, rtc0_unmasked,
                   gpiote_pending, rtc0_pending, primask, saved, speaker_on,
                   speaker_period, speaker_duty, active, isr_pc,
                   buttonapressed, buttonbpressed, data_x, freq, scale_step>>

\* Pwm::new ... set_period(Hertz(440)) ... enable; set_duty_on_common(max_duty / 2)
Main_speaker_setup ==
    /\ main_pc = "speaker_setup" /\ active = "none"
    /\ speaker_on' = TRUE
    /\ speaker_period' = Fix(0)
    /\ speaker_duty' = DUTY_DIV
    /\ main_pc' = "store_speaker"
    /\ UNCHANGED <<GPIO, RTC, SPEAKER, PITCH_BEND, STEPS, NOTE, OCTAVE,
                   USE_MINOR_SCALE, ch0_event, ch1_event, tick_event,
                   rtc_running, gpiote_unmasked, rtc0_unmasked,
                   gpiote_pending, rtc0_pending, primask, saved, active,
                   isr_pc, buttonapressed, buttonbpressed, data_x, freq,
                   scale_step>>

Main_store_speaker ==
    /\ main_pc = "store_speaker" /\ active = "none"
    /\ SPEAKER' = TRUE
    /\ main_pc' = "unmask_rtc0"
    /\ UNCHANGED <<GPIO, RTC, PITCH_BEND, STEPS, NOTE, OCTAVE,
                   USE_MINOR_SCALE, ch0_event, ch1_event, tick_event,
                   rtc_running, gpiote_unmasked, rtc0_unmasked,
                   gpiote_pending, rtc0_pending, primask, saved, speaker_on,
                   speaker_period, speaker_duty, active, isr_pc,
                   buttonapressed, buttonbpressed, data_x, freq, scale_step>>

\* NVIC::unmask(RTC0); NVIC::unpend(RTC0)
Main_unmask_rtc0 ==
    /\ main_pc = "unmask_rtc0" /\ active = "none"
    /\ rtc0_unmasked' = TRUE
    /\ rtc0_pending' = (rtc0_pending /\ rtc0_line)
    /\ main_pc' = "init_exit"
    /\ UNCHANGED <<GPIO, RTC, SPEAKER, PITCH_BEND, STEPS, NOTE, OCTAVE,
                   USE_MINOR_SCALE, ch0_event, ch1_event, tick_event,
                   rtc_running, gpiote_unmasked, gpiote_pending, primask,
                   saved, speaker_on, speaker_period, speaker_duty, active,
                   isr_pc, buttonapressed, buttonbpressed, data_x, freq,
                   scale_step>>

Main_init_exit ==
    /\ main_pc = "init_exit" /\ active = "none"
    /\ free_exit
    /\ main_pc' = "loop"
    /\ UNCHANGED <<GPIO, RTC, SPEAKER, PITCH_BEND, STEPS, NOTE, OCTAVE,
                   USE_MINOR_SCALE, ch0_event, ch1_event, tick_event,
                   rtc_running, gpiote_unmasked, rtc0_unmasked,
                   gpiote_pending, rtc0_pending, speaker_on, speaker_period,
                   speaker_duty, active, isr_pc, buttonapressed,
                   buttonbpressed, data_x, freq, scale_step>>

MainInit ==
    \/ Main_init_enter
    \/ Main_unmask_gpiote
    \/ Main_store_gpio
    \/ Main_rtc_setup
    \/ Main_store_rtc
    \/ Main_speaker_setup
    \/ Main_store_speaker
    \/ Main_unmask_rtc0
    \/ Main_init_exit

----------------------------------------------------------------------------
(* main: the sampling loop *)

\* xyz_new_data is set: read the sample, enter the critical section
Main_sample(x) ==
    /\ main_pc = "loop" /\ active = "none"
    /\ data_x' = x
    /\ free_enter
    /\ main_pc' = "bend"
    /\ UNCHANGED <<GPIO, RTC, SPEAKER, PITCH_BEND, STEPS, NOTE, OCTAVE,
                   USE_MINOR_SCALE, ch0_event, ch1_event, tick_event,
                   rtc_running, gpiote_unmasked, rtc0_unmasked,
                   gpiote_pending, rtc0_pending, speaker_on, speaker_period,
                   speaker_duty, active, isr_pc, buttonapressed,
                   buttonbpressed, freq, scale_step>>

\* variant: the accepted sample is added to the bend
Main_bend_accumulate ==
    /\ main_pc = "bend" /\ active = "none"
    /\ LET abs_data == Abs(Fix(data_x))
       IN  PITCH_BEND' = IF abs_data > Fix(NOISE_THRESHOLD)
                         THEN PITCH_BEND + new_freq(data_x)
                         ELSE PITCH_BEND
    /\ main_pc' = "bend_exit"
    /\ UNCHANGED <<GPIO, RTC, SPEAKER, STEPS, NOTE, OCTAVE, USE_MINOR_SCALE,
                   ch0_event, ch1_event, tick_event, rtc_running,
                   gpiote_unmasked, rtc0_unmasked, gpiote_pending,
                   rtc0_pending, primask, saved, speaker_on, speaker_period,
                   speaker_duty, active, isr_pc, buttonapressed,
                   buttonbpressed, data_x, freq, scale_step>>

\* variant: the threshold itself passes
Main_bend_inclusive ==
    /\ main_pc = "bend" /\ active = "none"
    /\ LET abs_data == Abs(Fix(data_x))
       IN  PITCH_BEND' = IF abs_data >= Fix(NOISE_THRESHOLD)
                         THEN new_freq(data_x)
                         ELSE PITCH_BEND
    /\ main_pc' = "bend_exit"
    /\ UNCHANGED <<GPIO, RTC, SPEAKER, STEPS, NOTE, OCTAVE, USE_MINOR_SCALE,
                   ch0_event, ch1_event, tick_event, rtc_running,
                   gpiote_unmasked, rtc0_unmasked, gpiote_pending,
                   rtc0_pending, primask, saved, speaker_on, speaker_period,
                   speaker_duty, active, isr_pc, buttonapressed,
                   buttonbpressed, data_x, freq, scale_step>>

\* if fabsf(data.x as f32) > 100. { PITCH_BEND = data.x as f32 / 8192.0 }
Main_bend ==
    /\ main_pc = "bend" /\ active = "none"
    /\ LET abs_data == Abs(Fix(data_x))
       IN  PITCH_BEND' = IF abs_data > Fix(NOISE_THRESHOLD)
                         THEN new_freq(data_x)
                         ELSE PITCH_BEND
    /\ main_pc' = "bend_exit"
    /\ UNCHANGED <<GPIO, RTC, SPEAKER, STEPS, NOTE, OCTAVE, USE_MINOR_SCALE,
                   ch0_event, ch1_event, tick_event, rtc_running,
                   gpiote_unmasked, rtc0_unmasked, gpiote_pending,
                   rtc0_pending, primask, saved, speaker_on, speaker_period,
                   speaker_duty, active, isr_pc, buttonapressed,
                   buttonbpressed, data_x, freq, scale_step>>

Main_bend_exit ==
    /\ main_pc = "bend_exit" /\ active = "none"
    /\ free_exit
    /\ data_x' = 0
    /\ main_pc' = "loop"
    /\ UNCHANGED <<GPIO, RTC, SPEAKER, PITCH_BEND, STEPS, NOTE, OCTAVE,
                   USE_MINOR_SCALE, ch0_event, ch1_event, tick_event,
                   rtc_running, gpiote_unmasked, rtc0_unmasked,
                   gpiote_pending, rtc0_pending, speaker_on, speaker_period,
                   speaker_duty, active, isr_pc, buttonapressed,
                   buttonbpressed, freq, scale_step>>

MainLoop ==
    \/ \E x \in Samples : Main_sample(x)
    \/ Main_bend
    \/ Main_bend_exit

----------------------------------------------------------------------------
(* #[interrupt] fn GPIOTE *)

GPIOTE_enter ==
    /\ active = "none" /\ ~primask
    /\ gpiote_unmasked /\ gpiote_pending
    /\ gpiote_pending' = FALSE
    /\ active' = "GPIOTE"
    /\ free_enter
    /\ isr_pc' = IF GPIO THEN "read0" ELSE "exit"
    /\ UNCHANGED <<GPIO, RTC, SPEAKER, PITCH_BEND, STEPS, NOTE, OCTAVE,
                   USE_MINOR_SCALE, ch0_event, ch1_event, tick_event,
                   rtc_running, gpiote_unmasked, rtc0_unmasked, rtc0_pending,
                   speaker_on, speaker_period, speaker_duty, main_pc,
                   buttonapressed, buttonbpressed, data_x, freq, scale_step>>

GPIOTE_read0 ==
    /\ active = "GPIOTE" /\ isr_pc = "read0"
    /\ buttonapressed' = ch0_event
    /\ isr_pc' = "read1"
    /\ UNCHANGED <<GPIO, RTC, SPEAKER, PITCH_BEND, STEPS, NOTE, OCTAVE,
                   USE_MINOR_SCALE, ch0_event, ch1_event, tick_event,
                   rtc_running, gpiote_unmasked, rtc0_unmasked,
                   gpiote_pending, rtc0_pending, primask, saved, speaker_on,
                   speaker_period, speaker_duty, main_pc, active,
                   buttonbpressed, data_x, freq, scale_step>>

GPIOTE_read1 ==
    /\ active = "GPIOTE" /\ isr_pc = "read1"
    /\ buttonbpressed' = ch1_event
    /\ isr_pc' = "match"
    /\ UNCHANGED <<GPIO, RTC, SPEAKER, PITCH_BEND, STEPS, NOTE, OCTAVE,
                   USE_MINOR_SCALE, ch0_event, ch1_event, tick_event,
                   rtc_running, gpiote_unmasked, rtc0_unmasked,
                   gpiote_pending, rtc0_pending, primask, saved, speaker_on,
                   speaker_period, speaker_duty, main_pc, active,
                   buttonapressed, data_x, freq, scale_step>>

\* variant: (true, true) counts as a press of A
GPIOTE_match_both ==
    /\ active = "GPIOTE" /\ isr_pc = "match"
    /\ STEPS' = CASE ~buttonapressed /\ ~buttonbpressed -> STEPS
                  [] buttonapressed /\ ~buttonbpressed -> STEPS + 1
                  [] ~buttonapressed /\ buttonbpressed -> STEPS - 1
                  [] buttonapressed /\ buttonbpressed -> STEPS + 1
    /\ isr_pc' = "reset0"
    /\ UNCHANGED <<GPIO, RTC, SPEAKER, PITCH_BEND, NOTE, OCTAVE,
                   USE_MINOR_SCALE, ch0_event, ch1_event, tick_event,
                   rtc_running, gpiote_unmasked, rtc0_unmasked,
                   gpiote_pending, rtc0_pending, primask, saved, speaker_on,
                   speaker_period, speaker_duty, main_pc, active,
                   buttonapressed, buttonbpressed, data_x, freq, scale_step>>

GPIOTE_match ==
    /\ active = "GPIOTE" /\ isr_pc = "match"
    /\ STEPS' = CASE ~buttonapressed /\ ~buttonbpressed -> STEPS
                  [] buttonapressed /\ ~buttonbpressed -> STEPS + 1
                  [] ~buttonapressed /\ buttonbpressed -> STEPS - 1
                  [] buttonapressed /\ buttonbpressed -> STEPS
    /\ isr_pc' = "reset0"
    /\ UNCHANGED <<GPIO, RTC, SPEAKER, PITCH_BEND, NOTE, OCTAVE,
                   USE_MINOR_SCALE, ch0_event, ch1_event, tick_event,
                   rtc_running, gpiote_unmasked, rtc0_unmasked,
                   gpiote_pending, rtc0_pending, primask, saved, speaker_on,
                   speaker_period, speaker_duty, main_pc, active,
                   buttonapressed, buttonbpressed, data_x, freq, scale_step>>

GPIOTE_reset0 ==
    /\ active = "GPIOTE" /\ isr_pc = "reset0"
    /\ ch0_event' = FALSE
    /\ isr_pc' = "reset1"
    /\ UNCHANGED <<GPIO, RTC, SPEAKER, PITCH_BEND, STEPS, NOTE, OCTAVE,
                   USE_MINOR_SCALE, ch1_event, tick_event, rtc_running,
                   gpiote_unmasked, rtc0_unmasked, gpiote_pending,
                   rtc0_pending, primask, saved, speaker_on, speaker_period,
                   speaker_duty, main_pc, active, buttonapressed,
                   buttonbpressed, data_x, freq, scale_step>>

GPIOTE_reset1 ==
    /\ active = "GPIOTE" /\ isr_pc = "reset1"
    /\ ch1_event' = FALSE
    /\ isr_pc' = "exit"
    /\ UNCHANGED <<GPIO, RTC, SPEAKER, PITCH_BEND, STEPS, NOTE, OCTAVE,
                   USE_MINOR_SCALE, ch0_event, tick_event, rtc_running,
                   gpiote_unmasked, rtc0_unmasked, gpiote_pending,
                   rtc0_pending, primask, saved, speaker_on, speaker_period,
                   speaker_duty, main_pc, active, buttonapressed,
                   buttonbpressed, data_x, freq, scale_step>>

GPIOTE_exit ==
    /\ active = "GPIOTE" /\ isr_pc = "exit"
    /\ free_exit
    /\ buttonapressed' = FALSE
    /\ buttonbpressed' = FALSE
    /\ gpiote_pending' = (gpiote_pending \/ gpiote_line)
    /\ active' = "none"
    /\ isr_pc' = "idle"
    /\ UNCHANGED <<GPIO, RTC, SPEAKER, PITCH_BEND, STEPS, NOTE, OCTAVE,
                   USE_MINOR_SCALE, ch0_event, ch1_event, tick_event,
                   rtc_running, gpiote_unmasked, rtc0_unmasked, rtc0_pending,
                   speaker_on, speaker_period, speaker_duty, main_pc, data_x,
                   freq, scale_step>>

GPIOTE ==
    \/ GPIOTE_enter
    \/ GPIOTE_read0
    \/ GPIOTE_read1
    \/ GPIOTE_match
    \/ GPIOTE_reset0
    \/ GPIOTE_reset1
    \/ GPIOTE_exit

----------------------------------------------------------------------------
(* #[interrupt] fn RTC0 *)

\* variant: the handler goes straight to note_to_freq
RTC0_enter_no_steps ==
    /\ active = "none" /\ ~primask
    /\ rtc0_unmasked /\ rtc0_pending
    /\ rtc0_pending' = FALSE
    /\ active' = "RTC0"
    /\ free_enter
    /\ isr_pc' = IF SPEAKER /\ RTC THEN "note_to_freq" ELSE "exit"
    /\ UNCHANGED <<GPIO, RTC, SPEAKER, PITCH_BEND, STEPS, NOTE, OCTAVE,
                   USE_MINOR_SCALE, ch0_event, ch1_event, tick_event,
                   rtc_running, gpiote_unmasked, rtc0_unmasked,
                   gpiote_pending, speaker_on, speaker_period, speaker_duty,
                   main_pc, buttonapressed, buttonbpressed, data_x, freq,
                   scale_step>>

RTC0_enter ==
    /\ active = "none" /\ ~primask
    /\ rtc0_unmasked /\ rtc0_pending
    /\ rtc0_pending' = FALSE
    /\ active' = "RTC0"
    /\ free_enter
    /\ isr_pc' = IF SPEAKER /\ RTC THEN "steps_to_note" ELSE "exit"
    /\ UNCHANGED <<GPIO, RTC, SPEAKER, PITCH_BEND, STEPS, NOTE, OCTAVE,
                   USE_MINOR_SCALE, ch0_event, ch1_event, tick_event,
                   rtc_running, gpiote_unmasked, rtc0_unmasked,
                   gpiote_pending, speaker_on, speaker_period, speaker_duty,
                   main_pc, buttonapressed, buttonbpressed, data_x, freq,
                   scale_step>>

\* variant: the octave is added to the one of the tick before
RTC0_steps_to_note_accumulate ==
    /\ active = "RTC0" /\ isr_pc = "steps_to_note"
    /\ OCTAVE' = OCTAVE + octave_of(STEPS)
    /\ scale_step' = step_of(STEPS)
    /\ LET note == note_of(step_of(STEPS), USE_MINOR_SCALE)
       IN  IF note = PANIC
           THEN NOTE' = NOTE /\ isr_pc' = "panic"
           ELSE NOTE' = note /\ isr_pc' = "note_to_freq"
    /\ UNCHANGED <<GPIO, RTC, SPEAKER, PITCH_BEND, STEPS, USE_MINOR_SCALE,
                   ch0_event, ch1_event, tick_event, rtc_running,
                   gpiote_unmasked, rtc0_unmasked, gpiote_pending,
                   rtc0_pending, primask, saved, speaker_on, speaker_period,
                   speaker_duty, main_pc, active, buttonapressed,
                   buttonbpressed, data_x, freq>>

\* variant: the reduced step is stored back into STEPS
RTC0_steps_to_note_writeback ==
    /\ active = "RTC0" /\ isr_pc = "steps_to_note"
    /\ OCTAVE' = octave_of(STEPS)
    /\ scale_step' = step_of(STEPS)
    /\ STEPS' = step_of(STEPS)
    /\ LET note == note_of(step_of(STEPS), USE_MINOR_SCALE)
       IN  IF note = PANIC
           THEN NOTE' = NOTE /\ isr_pc' = "panic"
           ELSE NOTE' = note /\ isr_pc' = "note_to_freq"
    /\ UNCHANGED <<GPIO, RTC, SPEAKER, PITCH_BEND, USE_MINOR_SCALE,
                   ch0_event, ch1_event, tick_event, rtc_running,
                   gpiote_unmasked, rtc0_unmasked, gpiote_pending,
                   rtc0_pending, primask, saved, speaker_on, speaker_period,
                   speaker_duty, main_pc, active, buttonapressed,
                   buttonbpressed, data_x, freq>>

\* steps_to_note(): its own interrupt::free finds PRIMASK set and leaves it set
RTC0_steps_to_note ==
    /\ active = "RTC0" /\ isr_pc = "steps_to_note"
    /\ OCTAVE' = octave_of(STEPS)
    /\ scale_step' = step_of(STEPS)
    /\ LET note == note_of(step_of(STEPS), USE_MINOR_SCALE)
       IN  IF note = PANIC
           THEN NOTE' = NOTE /\ isr_pc' = "panic"
           ELSE NOTE' = note /\ isr_pc' = "note_to_freq"
    /\ UNCHANGED <<GPIO, RTC, SPEAKER, PITCH_BEND, STEPS, USE_MINOR_SCALE,
                   ch0_event, ch1_event, tick_event, rtc_running,
                   gpiote_unmasked, rtc0_unmasked, gpiote_pending,
                   rtc0_pending, primask, saved, speaker_on, speaker_period,
                   speaker_duty, main_pc, active, buttonapressed,
                   buttonbpressed, data_x, freq>>

\* let freq = note_to_freq()
RTC0_note_to_freq ==
    /\ active = "RTC0" /\ isr_pc = "note_to_freq"
    /\ freq' = note_to_freq(NOTE, OCTAVE, PITCH_BEND)
    /\ isr_pc' = "set_period"
    /\ UNCHANGED <<GPIO, RTC, SPEAKER, PITCH_BEND, STEPS, NOTE, OCTAVE,
                   USE_MINOR_SCALE, ch0_event, ch1_event, tick_event,
                   rtc_running, gpiote_unmasked, rtc0_unmasked,
                   gpiote_pending, rtc0_pending, primask, saved, speaker_on,
                   speaker_period, speaker_duty, main_pc, active,
                   buttonapressed, buttonbpressed, data_x, scale_step>>

\* speaker.set_period(Hertz(freq as u32))
RTC0_set_period ==
    /\ active = "RTC0" /\ isr_pc = "set_period"
    /\ speaker_period' = freq
    /\ isr_pc' = "set_duty"
    /\ UNCHANGED <<GPIO, RTC, SPEAKER, PITCH_BEND, STEPS, NOTE, OCTAVE,
                   USE_MINOR_SCALE, ch0_event, ch1_event, tick_event,
                   rtc_running, gpiote_unmasked, rtc0_unmasked,
                   gpiote_pending, rtc0_pending, primask, saved, speaker_on,
                   speaker_duty, main_pc, active, buttonapressed,
                   buttonbpressed, data_x, freq, scale_step>>

\* speaker.set_duty_on_common(max_duty / 2)
RTC0_set_duty ==
    /\ active = "RTC0" /\ isr_pc = "set_duty"
    /\ speaker_duty' = DUTY_DIV
    /\ isr_pc' = "reset_event"
    /\ UNCHANGED <<GPIO, RTC, SPEAKER, PITCH_BEND, STEPS, NOTE, OCTAVE,
                   USE_MINOR_SCALE, ch0_event, ch1_event, tick_event,
                   rtc_running, gpiote_unmasked, rtc0_unmasked,
                   gpiote_pending, rtc0_pending, primask, saved, speaker_on,
                   speaker_period, main_pc, active, buttonapressed,
                   buttonbpressed, data_x, freq, scale_step>>

\* variant: the handler returns without clearing the tick event
RTC0_reset_event_kept ==
    /\ active = "RTC0" /\ isr_pc = "reset_event"
    /\ tick_event' = tick_event
    /\ isr_pc' = "exit"
    /\ UNCHANGED <<GPIO, RTC, SPEAKER, PITCH_BEND, STEPS, NOTE, OCTAVE,
                   USE_MINOR_SCALE, ch0_event, ch1_event, rtc_running,
                   gpiote_unmasked, rtc0_unmasked, gpiote_pending,
                   rtc0_pending, primask, saved, speaker_on, speaker_period,
                   speaker_duty, main_pc, active, buttonapressed,
                   buttonbpressed, data_x, freq, scale_step>>

\* rtc.reset_event(RtcInterrupt::Tick)
RTC0_reset_event ==
    /\ active = "RTC0" /\ isr_pc = "reset_event"
    /\ tick_event' = FALSE
    /\ isr_pc' = "exit"
    /\ UNCHANGED <<GPIO, RTC, SPEAKER, PITCH_BEND, STEPS, NOTE, OCTAVE,
                   USE_MINOR_SCALE, ch0_event, ch1_event, rtc_running,
                   gpiote_unmasked, rtc0_unmasked, gpiote_pending,
                   rtc0_pending, primask, saved, speaker_on, speaker_period,
                   speaker_duty, main_pc, active, buttonapressed,
                   buttonbpressed, data_x, freq, scale_step>>

RTC0_exit ==
    /\ active = "RTC0" /\ isr_pc = "exit"
    /\ free_exit
    /\ rtc0_pending' = (rtc0_pending \/ rtc0_line)
    /\ active' = "none"
    /\ isr_pc' = "idle"
    /\ UNCHANGED <<GPIO, RTC, SPEAKER, PITCH_BEND, STEPS, NOTE, OCTAVE,
                   USE_MINOR_SCALE, ch0_event, ch1_event, tick_event,
                   rtc_running, gpiote_unmasked, rtc0_unmasked,
                   gpiote_pending, speaker_on, speaker_period, speaker_duty,
                   main_pc, buttonapressed, buttonbpressed, data_x, freq,
                   scale_step>>

RTC0 ==
    \/ RTC0_enter
    \/ RTC0_steps_to_note
    \/ RTC0_note_to_freq
    \/ RTC0_set_period
    \/ RTC0_set_duty
    \/ RTC0_reset_event
    \/ RTC0_exit

----------------------------------------------------------------------------
(* The program *)

NoHist == UNCHANGED <<cooling, accepted, prev>>

Next ==
    \/ MainInit /\ NoHist
    \/ MainLoop /\ NoHist
    \/ GPIOTE /\ NoHist
    \/ RTC0 /\ NoHist
    \/ Button_A(StepCap) /\ NoHist
    \/ Button_B(StepCap) /\ NoHist
    \/ Tick /\ NoHist

Spec == Init /\ [][Next]_vars

----------------------------------------------------------------------------
(* The program with its scheduling: the RTC keeps ticking, the processor   *)
(* keeps executing main and the handler it is in, and a pending RTC0       *)
(* interrupt is taken at some return to thread mode with interrupts        *)
(* enabled.                                                                *)

FairNext ==
    \/ MainInit /\ NoHist
    \/ MainLoop /\ NoHist
    \/ GPIOTE /\ NoHist
    \/ RTC0 /\ NoHist
    \/ Button_A(LiveCap) /\ NoHist
    \/ Button_B(LiveCap) /\ NoHist
    \/ Tick /\ NoHist

FairSpec ==
    /\ Init /\ [][FairNext]_vars
    /\ WF_vars(MainInit /\ NoHist)
    /\ WF_vars(MainLoop /\ NoHist)
    /\ WF_vars(GPIOTE /\ NoHist)
    /\ SF_vars(RTC0 /\ NoHist)
    /\ WF_vars(Tick /\ NoHist)

----------------------------------------------------------------------------
(* The edge handler alone: buttons and GPIOTE, no tick is taken.  STEPS    *)
(* may run up to EdgeCap.                                                  *)

EdgeNext ==
    \/ MainInit /\ NoHist
    \/ GPIOTE /\ NoHist
    \/ Button_A(EdgeCap) /\ NoHist
    \/ Button_B(EdgeCap) /\ NoHist

EdgeSpec == Init /\ [][EdgeNext]_vars

----------------------------------------------------------------------------
(* Buttons and ticks, with the debounce window of the specification kept   *)
(* as a history variable: DEBOUNCE_WINDOW when STEPS changes, one less at  *)
(* the end of each tick, never below 0.                                    *)

DebounceHist ==
    /\ cooling' = IF STEPS' # STEPS
                  THEN DEBOUNCE_WINDOW
                  ELSE IF /\ active = "RTC0" /\ isr_pc = "reset_event"
                          /\ isr_pc' = "exit" /\ cooling > 0
                       THEN cooling - 1
                       ELSE cooling
    /\ UNCHANGED <<accepted, prev>>

DebounceNext ==
    \/ MainInit /\ DebounceHist
    \/ GPIOTE /\ DebounceHist
    \/ RTC0 /\ DebounceHist
    \/ Button_A(StepCap) /\ DebounceHist
    \/ Button_B(StepCap) /\ DebounceHist
    \/ Tick /\ DebounceHist

DebounceSpec == Init /\ [][DebounceNext]_vars

----------------------------------------------------------------------------
(* The sampling loop and the tick, with the samples that passed the        *)
(* threshold kept as a history variable (the last two).                    *)

Last2(q) == IF Len(q) > 2 THEN SubSeq(q, Len(q) - 1, Len(q)) ELSE q

BendHist ==
    /\ accepted' = IF /\ main_pc = "bend" /\ main_pc' = "bend_exit"
                      /\ Abs(data_x) > NOISE_THRESHOLD
                   THEN Last2(Append(accepted, data_x))
                   ELSE accepted
    /\ UNCHANGED <<cooling, prev>>

BendNext ==
    \/ MainInit /\ BendHist
    \/ MainLoop /\ BendHist
    \/ RTC0 /\ BendHist
    \/ Tick /\ BendHist

BendSpec == Init /\ [][BendNext]_vars

----------------------------------------------------------------------------
(* The synthesizer as a function of (STEPS, PITCH_BEND, USE_MINOR_SCALE):  *)
(* the inputs are drawn from their ranges, the tick handler evaluates      *)
(* them, and STEPS is retuned by k steps between two ticks (k presses).    *)
(* prev keeps the evaluation before the retune.                            *)

StepRange == (-STEP_LIMIT)..STEP_LIMIT

SynthInit ==
    /\ GPIO = TRUE /\ RTC = TRUE /\ SPEAKER = TRUE
    /\ PITCH_BEND \in {Fix(0)} \cup {new_freq(x) : x \in {y \in Samples : Abs(y) > NOISE_THRESHOLD}}
    /\ STEPS \in StepRange
    /\ NOTE = 0 /\ OCTAVE = 0
    /\ USE_MINOR_SCALE \in BOOLEAN
    /\ ch0_event = FALSE /\ ch1_event = FALSE
    /\ tick_event = FALSE /\ rtc_running = TRUE
    /\ gpiote_unmasked = TRUE /\ rtc0_unmasked = TRUE
    /\ gpiote_pending = FALSE /\ rtc0_pending = FALSE
    /\ primask = FALSE /\ saved = <<>>
    /\ speaker_on = TRUE /\ speaker_period = Fix(0) /\ speaker_duty = DUTY_DIV
    /\ main_pc = "loop"
    /\ active = "none" /\ isr_pc = "idle"
    /\ buttonapressed = FALSE /\ buttonbpressed = FALSE
    /\ data_x = 0 /\ freq = Fix(0) /\ scale_step = 0
    /\ cooling = 0
    /\ accepted = <<>>
    /\ prev = [valid |-> FALSE, stale |-> TRUE, steps |-> 0, semitone |-> Fix(0),
               octave |-> 0, step |-> 0,
               note |-> 0, back |-> FALSE]

\* k presses handled between two ticks
Retune(k) ==
    /\ active = "none" /\ main_pc = "loop"
    /\ ~prev.stale
    /\ STEPS + k \in StepRange
    /\ STEPS' = STEPS + k
    /\ prev' = [valid |-> TRUE, stale |-> TRUE, steps |-> STEPS,
                semitone |-> speaker_period, octave |-> OCTAVE, step |-> scale_step,
                note |-> NOTE, back |-> FALSE]
    /\ UNCHANGED <<cooling, accepted>>
    /\ UNCHANGED <<GPIO, RTC, SPEAKER, PITCH_BEND, NOTE, OCTAVE,
                   USE_MINOR_SCALE, ch0_event, ch1_event, tick_event,
                   rtc_running, gpiote_unmasked, rtc0_unmasked,
                   gpiote_pending, rtc0_pending, primask, saved, speaker_on,
                   speaker_period, speaker_duty, main_pc, active, isr_pc,
                   buttonapressed, buttonbpressed, data_x, freq, scale_step>>

\* the presses are undone: STEPS is again what the evaluation kept in prev had
Return ==
    /\ active = "none" /\ main_pc = "loop"
    /\ prev.valid /\ ~prev.stale /\ ~prev.back
    /\ STEPS' = prev.steps
    /\ prev' = [prev EXCEPT !.stale = TRUE, !.back = TRUE]
    /\ UNCHANGED <<cooling, accepted>>
    /\ UNCHANGED <<GPIO, RTC, SPEAKER, PITCH_BEND, NOTE, OCTAVE,
                   USE_MINOR_SCALE, ch0_event, ch1_event, tick_event,
                   rtc_running, gpiote_unmasked, rtc0_unmasked,
                   gpiote_pending, rtc0_pending, primask, saved, speaker_on,
                   speaker_period, speaker_duty, main_pc, active, isr_pc,
                   buttonapressed, buttonbpressed, data_x, freq, scale_step>>

SynthHist ==
    /\ prev' = IF active = "RTC0" /\ isr_pc = "set_period" /\ isr_pc' = "set_duty"
               THEN [prev EXCEPT !.stale = FALSE]
               ELSE prev
    /\ UNCHANGED <<cooling, accepted>>

SynthNext ==
    \/ \E k \in {-SCALE_LEN, -1, 1, SCALE_LEN} : Retune(k)
    \/ Return
    \/ RTC0 /\ SynthHist
    \/ Tick /\ SynthHist

SynthSpec == SynthInit /\ [][SynthNext]_vars

----------------------------------------------------------------------------
(* Properties *)

\* what one tick computes from the shared state
synthesize(steps, pitch_bend, is_minor_scale) ==
    note_to_freq(note_of(step_of(steps), is_minor_scale), octave_of(steps), pitch_bend)

MinorTable == <<0, 2, 3, 5, 7, 8, 10>>
MajorTable == <<0, 2, 4, 5, 7, 9, 11>>

\* C1 (EdgeSpec): StepCount stays within [-STEP_LIMIT, STEP_LIMIT] after any
\* sequence of edge events; a press at a bound leaves it at the bound.
C1_StepCountClamped == STEPS \in StepRange

\* C2 (DebounceSpec): while the debounce window opened by the last change of
\* StepCount has not elapsed, an edge-handler run with exactly one channel
\* signalling leaves StepCount unchanged.
C2_DebounceSuppression ==
    [][(/\ active = "GPIOTE" /\ isr_pc = "match"
        /\ cooling > 0
        /\ buttonapressed # buttonbpressed) => STEPS' = STEPS]_vars

\* C3 (SynthSpec): with pitch bend 0, the semitone value the tick computes for
\* step count s + 7 is exactly 12 above the one it computed for s, for every s
\* with s and s + 7 in the supported range and for both modes.
C3_OctaveDoubling ==
    (/\ prev.valid /\ ~prev.stale
     /\ PITCH_BEND = Fix(0)
     /\ STEPS = prev.steps + SCALE_LEN)
        => speaker_period = prev.semitone + Fix(OCTAVE_SEMITONES)

\* C4 (SynthSpec): with StepCount 0 and PitchBend 0 the tick computes note 0
\* and octave 0 in both modes, and the exponent of the frequency is 0: 440 Hz.
C4_ReferencePitch ==
    (/\ active = "RTC0" /\ isr_pc = "set_period"
     /\ STEPS = 0 /\ PITCH_BEND = Fix(0))
        => (NOTE = 0 /\ OCTAVE = 0 /\ freq = Fix(0))

\* a tick has evaluated StepCount 0 after the octave had been away from 0
C4_Witness ==
    /\ active = "RTC0" /\ isr_pc = "set_period"
    /\ STEPS = 0 /\ PITCH_BEND = Fix(0)
    /\ prev.valid /\ prev.octave # 0
    /\ ~USE_MINOR_SCALE

\* C5 (Spec): no step of an edge-handler run changes PITCH_BEND, NOTE, OCTAVE,
\* USE_MINOR_SCALE or the programmed output; StepCount changes only at the
\* match: not at all when both or neither channel signalled, by +1 for
\* channel 0 alone and by -1 for channel 1 alone when not at a bound.
C5_EdgeEffect ==
    [][(active = "GPIOTE" \/ active' = "GPIOTE") =>
        /\ UNCHANGED <<PITCH_BEND, NOTE, OCTAVE, USE_MINOR_SCALE,
                       speaker_period, speaker_duty>>
        /\ IF active = "GPIOTE" /\ isr_pc = "match" /\ isr_pc' = "reset0"
           THEN /\ (buttonapressed = buttonbpressed) => STEPS' = STEPS
                /\ (buttonapressed /\ ~buttonbpressed /\ Abs(STEPS) # STEP_LIMIT)
                       => STEPS' = STEPS + 1
                /\ (~buttonapressed /\ buttonbpressed /\ Abs(STEPS) # STEP_LIMIT)
                       => STEPS' = STEPS - 1
           ELSE STEPS' = STEPS]_vars

\* the match has acted with both channels signalling
C5_Witness ==
    /\ active = "GPIOTE" /\ isr_pc = "reset0"
    /\ buttonapressed /\ buttonbpressed
    /\ STEPS # 0

\* C6 (BendSpec): PitchBend is the value of the most recent accepted sample,
\* x / 8192, whatever was accepted before it, and 0 while none was accepted.
C6_BendReplacement ==
    IF accepted = <<>>
    THEN PITCH_BEND = Fix(0)
    ELSE PITCH_BEND * BEND_SCALE = Fix(accepted[Len(accepted)])

\* two different samples were accepted one after the other
C6_Witness ==
    /\ Len(accepted) = 2
    /\ accepted[1] # accepted[2]
    /\ main_pc = "bend_exit"
    /\ data_x = accepted[2]

\* C7 (BendSpec): PitchBend changes only in the bend update of a sample with
\* |x| > NOISE_THRESHOLD; a sample at or below the threshold leaves it as it was.
C7_NoiseThreshold ==
    [][PITCH_BEND' # PITCH_BEND =>
        (main_pc = "bend" /\ Abs(data_x) > NOISE_THRESHOLD)]_vars

\* a sample exactly at the threshold has been applied and a bend is kept
C7_Witness ==
    /\ main_pc = "bend_exit"
    /\ Abs(data_x) = NOISE_THRESHOLD
    /\ PITCH_BEND # Fix(0)

\* C8 (Spec): no handler runs while the foreground is inside its bend update,
\* a handler runs with interrupts disabled, and what the tick holds after
\* steps_to_note, after note_to_freq and after set_period is what the current
\* STEPS, PITCH_BEND and USE_MINOR_SCALE give: nothing wrote them in between.
C8_MutualExclusion ==
    /\ main_pc \in {"bend", "bend_exit"} => (active = "none" /\ primask)
    /\ active # "none" => primask
    /\ (active = "RTC0" /\ isr_pc = "note_to_freq") =>
          /\ OCTAVE = octave_of(STEPS)
          /\ NOTE = note_of(step_of(STEPS), USE_MINOR_SCALE)
    /\ (active = "RTC0" /\ isr_pc = "set_period") =>
          freq = synthesize(STEPS, PITCH_BEND, USE_MINOR_SCALE)
    /\ (active = "RTC0" /\ isr_pc \in {"set_duty", "reset_event"}) =>
          speaker_period = synthesize(STEPS, PITCH_BEND, USE_MINOR_SCALE)

\* a tick has programmed its period while a button event is pending
C8_Witness ==
    /\ active = "RTC0" /\ isr_pc = "set_duty"
    /\ gpiote_pending
    /\ STEPS # 0 /\ PITCH_BEND # Fix(0)

\* C9 (SynthSpec): for StepCount 0..6 and PitchBend 0 the tick computes octave
\* 0 and the semitone offset of the mode's table at that degree.
C9_ScaleQuantization ==
    (/\ active = "RTC0" /\ isr_pc = "set_period"
     /\ STEPS \in 0..(SCALE_LEN - 1) /\ PITCH_BEND = Fix(0))
        => /\ OCTAVE = 0
           /\ NOTE = IF USE_MINOR_SCALE THEN MinorTable[STEPS + 1]
                                        ELSE MajorTable[STEPS + 1]
           /\ freq = Fix(NOTE)

\* minor, step count 1: offset 2
C9_Witness ==
    /\ active = "RTC0" /\ isr_pc = "set_period"
    /\ STEPS = 1 /\ PITCH_BEND = Fix(0) /\ USE_MINOR_SCALE
    /\ NOTE = 2 /\ OCTAVE = 0

\* C10 (SynthSpec): with PitchBend 0, of two evaluations in the same octave
\* the one for scale degree d + 1 is not below the one for degree d.
C10_DegreeMonotone ==
    (/\ prev.valid /\ ~prev.stale
     /\ PITCH_BEND = Fix(0)
     /\ OCTAVE = prev.octave
     /\ scale_step = prev.step + 1)
        => speaker_period >= prev.semitone

\* degree 3 then degree 4 of the major scale, octave 1
C10_Witness ==
    /\ prev.valid /\ ~prev.stale
    /\ PITCH_BEND = Fix(0) /\ ~USE_MINOR_SCALE
    /\ OCTAVE = 1 /\ prev.octave = 1
    /\ prev.step = 3 /\ scale_step = 4
    /\ speaker_period > prev.semitone


\* C11 (SynthSpec): the scale step steps_to_note looks up is in 0..6 for every
\* step count, the panic is never reached, and the note is never the 12 of
\* the arm for step 7: an octave comes from OCTAVE alone.
C11_DegreeInRange ==
    /\ scale_step \in 0..(SCALE_LEN - 1)
    /\ isr_pc # "panic"
    /\ NOTE # PANIC
    /\ NOTE < OCTAVE_SEMITONES

\* a negative step count one short of an octave has been looked up
C11_Witness ==
    /\ active = "RTC0" /\ isr_pc = "note_to_freq"
    /\ STEPS < 0 /\ scale_step = SCALE_LEN - 1
    /\ OCTAVE < 0

\* C12 (SynthSpec): for every step count s of the supported range the tick
\* computes degree = s mod 7 (floored, 0..6) and octave = floor(s / 7), so the
\* semitone offset is table[s mod 7] + 12 * floor(s / 7), for negative s too.
C12_SignedDecomposition ==
    (active = "RTC0" /\ isr_pc = "note_to_freq") =>
        /\ scale_step = STEPS % SCALE_LEN
        /\ OCTAVE = STEPS \div SCALE_LEN
        /\ NOTE = IF USE_MINOR_SCALE THEN MinorTable[(STEPS % SCALE_LEN) + 1]
                                     ELSE MajorTable[(STEPS % SCALE_LEN) + 1]

\* C17 (SynthSpec): with PitchBend and ScaleMode fixed, the semitone value of
\* the tick for step count s + 1 is not below the one for s, over the whole
\* supported range.
C17_StepMonotone ==
    (/\ prev.valid /\ ~prev.stale
     /\ STEPS = prev.steps + 1)
        => speaker_period >= prev.semitone


\* C13 (Spec): STEPS is written only by the edge handler, PITCH_BEND only by
\* the bend update of the foreground loop, USE_MINOR_SCALE by nothing: a step
\* of the tick handler changes none of the three, a step of the edge handler
\* leaves PITCH_BEND alone and a step of main leaves STEPS alone.
C13_SingleWriter ==
    [][/\ STEPS' # STEPS => (active = "GPIOTE" /\ isr_pc = "match")
       /\ PITCH_BEND' # PITCH_BEND => (active = "none" /\ main_pc = "bend")
       /\ USE_MINOR_SCALE' = USE_MINOR_SCALE]_vars

\* a tick has run to its end after presses and an accepted sample
C13_Witness ==
    /\ active = "RTC0" /\ isr_pc = "exit"
    /\ STEPS = SCALE_LEN + 1 /\ PITCH_BEND # Fix(0)
    /\ speaker_period = synthesize(STEPS, PITCH_BEND, USE_MINOR_SCALE)


\* C14 (SynthSpec): a tick that finds the StepCount, PitchBend and ScaleMode
\* of an earlier tick computes the note, octave and frequency of that tick,
\* whatever NOTE and OCTAVE were left by the ticks in between.
C14_HistoryIndependent ==
    (prev.back /\ ~prev.stale) =>
        /\ STEPS = prev.steps
        /\ NOTE = prev.note
        /\ OCTAVE = prev.octave
        /\ speaker_period = prev.semitone

\* the same inputs evaluated again after a tick at another step count
C14_Witness ==
    /\ prev.back /\ ~prev.stale
    /\ active = "RTC0" /\ isr_pc = "set_duty"
    /\ STEPS # 0 /\ PITCH_BEND # Fix(0)
    /\ speaker_period = prev.semitone


\* C15 (Spec): every run of the tick handler goes, in this order, through
\* steps_to_note, note_to_freq, the programming of the period from the
\* frequency just computed, the programming of the duty to max_duty / DUTY_DIV
\* whatever the shared state holds, and the clearing of the tick event, and
\* returns only after that.
C15_TickSequence ==
    [][/\ (active = "none" /\ active' = "RTC0") => isr_pc' = "steps_to_note"
       /\ (active = "RTC0" /\ isr_pc' # isr_pc) =>
            CASE isr_pc = "steps_to_note" -> isr_pc' = "note_to_freq"
              [] isr_pc = "note_to_freq" -> isr_pc' = "set_period"
              [] isr_pc = "set_period" ->
                    isr_pc' = "set_duty" /\ speaker_period' = freq
              [] isr_pc = "set_duty" ->
                    isr_pc' = "reset_event" /\ speaker_duty' = DUTY_DIV
              [] isr_pc = "reset_event" ->
                    isr_pc' = "exit" /\ ~tick_event'
              [] isr_pc = "exit" -> active' = "none"
              [] OTHER -> FALSE]_vars

\* a tick is about to return: period and duty programmed, event cleared
C15_Witness ==
    /\ active = "RTC0" /\ isr_pc = "exit"
    /\ ~tick_event
    /\ speaker_period = freq /\ freq # Fix(0)
    /\ speaker_duty = DUTY_DIV


C18_HandlesInstalled ==
    /\ [](/\ (gpiote_unmasked /\ ~GPIO) => (primask /\ active = "none")
          /\ (rtc0_unmasked /\ ~(SPEAKER /\ RTC)) => (primask /\ active = "none")
          /\ active = "GPIOTE" => GPIO
          /\ active = "RTC0" => (SPEAKER /\ RTC))
    /\ [][/\ (active = "none" /\ active' = "GPIOTE") => isr_pc' = "read0"
          /\ (active = "none" /\ active' = "RTC0") => isr_pc' = "steps_to_note"
          /\ (active = "GPIOTE" /\ isr_pc # "exit" /\ isr_pc' = "exit")
                => isr_pc = "reset1"
          /\ (active = "RTC0" /\ isr_pc # "exit" /\ isr_pc' = "exit")
                => (isr_pc = "reset_event" /\ ~tick_event')]_vars

\* the edge handler starts its body for the first press while a tick is
\* waiting to be served
C18_Witness ==
    /\ active = "GPIOTE" /\ isr_pc = "read0" /\ GPIO
    /\ SPEAKER /\ RTC /\ rtc0_pending /\ tick_event
    /\ main_pc = "loop" /\ STEPS = 0



\* C19 (Spec): the edge handler clears a channel's event flag only if it read
\* that flag as triggered in the same invocation: a step that takes
\* ch0_event from set to clear has buttonapressed, a step that takes
\* ch1_event from set to clear has buttonbpressed.
C19_ClearsOnlyObserved ==
    [][/\ (ch0_event /\ ~ch0_event') => buttonapressed
       /\ (ch1_event /\ ~ch1_event') => buttonbpressed]_vars

====
